---- MODULE Spec2Model ----
(***************************************************************************)
(* The browser tool catalog of src/tools/browser_tools.py (BrowserTools)   *)
(* over one Selenium session: the session, its tabs and the driver's       *)
(* focus, the page of every tab, the blocking call in flight and the last  *)
(* completed call with what the driver showed it and what it gave back.    *)
(*                                                                         *)
(* The driver is the external collaborator.  Its answers are modelled as   *)
(* Selenium documents them: a command on a quit session or on a closed     *)
(* window raises, find_element raises NoSuchElementException when nothing  *)
(* matches, WebDriverWait.until polls at least once, ignores               *)
(* NoSuchElementException while polling and raises TimeoutException when   *)
(* the budget is spent.  Any command may also fail for a reason of the     *)
(* driver's own (the fault input of the actions).                          *)
(*                                                                         *)
(* A page is the element the selector-taking tools are pointed at, with    *)
(* its content, and the rest of its document, a list of elements in        *)
(* document order that the introspection tools query.  CSS matching and    *)
(* the two XPath queries of find_elements_by_text are modelled as the      *)
(* browser evaluates them.                                                 *)
(*                                                                         *)
(* The agent graph of src/main.py is modelled beside the catalog: the      *)
(* thread's messages, the node a run is at, and the routing predicate      *)
(* route_tools that decides between the tools node and the end of a run.   *)
(***************************************************************************)
EXTENDS Integers, Sequences, FiniteSets, TLC

\* Bounds of the model.
MaxTabs == 3
MaxTimeout == 1
MaxNodes == 2
RaceTabs == 2
MaxMessages == 6
MaxCalls == 2
MaxContent == 1

\* The driver's focus when the focused window is gone.
NoTab == 0

TabIds == 1 .. MaxTabs
Timeouts == 0 .. MaxTimeout
TabIndexes == -1 .. MaxTabs

\* The threads that call the catalog.
Callers == {1, 2}

\* The page fixture: a loaded page holds at most one element that the
\* selector-taking tools are pointed at, <input type="text" id="el"
\* onclick="...">, matched by "#el", and after it the other elements of the
\* document (doc); "#missing" matches nothing on any page.
Selectors == {"#el", "#missing"}
Blank == "about:blank"
Urls == {"http://portal"}
RaceUrls == Urls \cup {"http://leave"}

\* The texts a caller types, and the contents an element is served with.
Texts == {<<>>, <<"a">>, <<"b">>}
Contents == {<<>>, <<"a">>, <<"b">>, <<"b", "a">>}

\* What the driver reports of an element: is it in the DOM, is_displayed(),
\* is_enabled().  "disabled" is displayed but not enabled, "hidden" is enabled
\* but not displayed.  "unseen": the call never got an element to look at.
ElStates == {"absent", "hidden", "disabled", "hidden-disabled", "ready"}
Present(e) == e \in {"hidden", "disabled", "hidden-disabled", "ready"}
Visible(e) == e \in {"disabled", "ready"}
Enabled(e) == e \in {"hidden", "ready"}

\* Faults of the driver's own that a command may raise.
Faults == {"none", "WebDriverException"}
NavFaults == Faults \cup {"TimeoutException"}

VARIABLES
    session,    \* "open" | "closed": closed by driver.quit()
    handles,    \* driver.window_handles: the open tabs, in opening order
    active,     \* the window the driver's commands go to, or NoTab
    page,       \* page[t]: url of tab t, state (el) and content (val) of its
                \* element "#el", and the rest of its document (doc)
    call,       \* the blocking call in flight (WebDriverWait loop), or Idle
    last,       \* the last completed call: its inputs, the session, tabs and
                \* element as they were when it was made (sess, hs, was, el),
                \* the polls it made, and its outcome (raised, out, did, the
                \* element's content val, the report rep)
    callers,    \* the threads that call the catalog: who runs now, and for
                \* each the tab and url it last selected or navigated to (est)
    graph       \* the agent graph: the conversation's messages, the node
                \* the run is at, the nodes it ran (trace), and the last
                \* direct call of the routing predicate (routed)

vars == <<session, handles, active, page, call, last, callers, graph>>

Range(s) == {s[i] : i \in 1 .. Len(s)}

RECURSIVE Without(_, _)
Without(s, x) ==
    IF s = <<>> THEN <<>>
    ELSE IF Head(s) = x THEN Without(Tail(s), x)
    ELSE <<Head(s)>> \o Without(Tail(s), x)

\* What a site serves: the element's state and content, and the rest of the
\* document.
Served(e, v, d) == [el |-> e, val |-> v, doc |-> d]

\* The page of url that shows what was served.
PageOf(url, pg) == [url |-> url, el |-> pg.el, val |-> pg.val, doc |-> pg.doc]

BlankPage == PageOf(Blank, Served("absent", <<>>, <<>>))

\* An introspection report: the count, the listed elements (items), and the
\* counts of get_page_info's categories (cats).
NoRep == [count |-> 0, items |-> <<>>, cats |-> <<>>, title |-> "", url |-> ""]

Idle ==
    [op |-> "none", sel |-> "", text |-> <<>>, tmo |-> 0, elapsed |-> 0,
     first |-> "unseen", steady |-> TRUE]

NoCall ==
    [op |-> "none", sel |-> "", key |-> <<>>, idx |-> 0, tmo |-> 0,
     polls |-> 0, fault |-> "none", sess |-> "open", el |-> "unseen",
     steady |-> TRUE, hs |-> <<>>, was |-> NoTab, raised |-> FALSE,
     out |-> "", did |-> "none", tab |-> NoTab, url |-> "",
     text |-> <<>>, partial |-> FALSE, before |-> <<>>, val |-> <<>>,
     q |-> 0, stale |-> 0, ready |-> FALSE, doc |-> <<>>, rep |-> NoRep,
     who |-> 1, inner |-> "none"]

\* ------------------------------------------------------------------ driver

\* The session as a command finds it.
SessState ==
    IF session = "closed" THEN "closed"
    ELSE IF active = NoTab THEN "notab"
    ELSE "open"

\* What a command raises because of the session: after quit(), or with the
\* focus on a closed window.
SessionFault ==
    IF session = "closed" THEN "InvalidSessionIdException"
    ELSE IF active = NoTab THEN "NoSuchWindowException"
    ELSE "none"

\* The fault of one driver command: the session's, else the driver's own f.
DriverFault(f) == IF SessionFault # "none" THEN SessionFault ELSE f

\* The element a selector resolves to on the focused page.
Elem(sel) ==
    IF active = NoTab THEN "absent"
    ELSE IF sel = "#el" THEN page[active].el
    ELSE "absent"

\* driver.find_element(By.CSS_SELECTOR, sel), for the driver fault df of the
\* command and the element e the selector resolves to.
FindFaultOf(df, e) ==
    IF df # "none" THEN df
    ELSE IF ~Present(e) THEN "NoSuchElementException"
    ELSE "none"

FindFault(sel, f) == FindFaultOf(DriverFault(f), Elem(sel))

\* element.click(): the driver refuses an element that is not displayed; a
\* disabled element takes the click without effect.
ClickFault(e) ==
    IF ~Visible(e) THEN "ElementNotInteractableException" ELSE "none"

\* element.clear(): the element must be editable (enabled), then interactable.
ClearFault(e) ==
    IF ~Enabled(e) THEN "InvalidElementStateException"
    ELSE IF ~Visible(e) THEN "ElementNotInteractableException"
    ELSE "none"

\* element.send_keys(...)
SendKeysFault(e) ==
    IF ~Visible(e) \/ ~Enabled(e) THEN "ElementNotInteractableException"
    ELSE "none"

Ret(o, d) == [raised |-> FALSE, out |-> o, did |-> d]
Raise(x) == [raised |-> TRUE, out |-> x, did |-> "none"]

\* The record of a completed call on a selector: r is its outcome, ff the
\* fault the driver had for it (or "none"), e the state of the element that
\* sel resolved to when the call was made.
Done(op, sel, ff, e, r) ==
    [NoCall EXCEPT !.op = op, !.sel = sel, !.fault = ff, !.sess = SessState,
                   !.el = e, !.raised = r.raised, !.out = r.out,
                   !.did = r.did, !.tab = active, !.who = callers.who]

\* ------------------------------------------------------- basic primitives

\* click_element: find_element, click; nothing is caught.
ClickOutcome(sel, f) ==
    IF FindFault(sel, f) # "none" THEN Raise(FindFault(sel, f))
    ELSE IF ClickFault(Elem(sel)) # "none" THEN Raise(ClickFault(Elem(sel)))
    ELSE Ret("Clicked element", "click")

ClickElement(sel, f) ==
    /\ call = Idle
    /\ last' = Done("click_element", sel, DriverFault(f), Elem(sel),
                    ClickOutcome(sel, f))
    /\ UNCHANGED <<session, handles, active, page, call, callers, graph>>

\* input_text: find_element, clear, send_keys; nothing is caught.
InputOutcome(sel, f) ==
    IF FindFault(sel, f) # "none" THEN Raise(FindFault(sel, f))
    ELSE IF ClearFault(Elem(sel)) # "none" THEN Raise(ClearFault(Elem(sel)))
    ELSE IF SendKeysFault(Elem(sel)) # "none"
         THEN [raised |-> TRUE, out |-> SendKeysFault(Elem(sel)), did |-> "clear"]
    ELSE Ret("Entered text", "clear+type")

\* The content of the element a selector resolves to on the focused page.
Content(sel) ==
    IF active = NoTab \/ sel # "#el" THEN <<>> ELSE page[active].val

\* Mutant: a clear() that leaves the content in place.
NotCleared(v) == v

\* element.clear() empties the element's content ...
Cleared(v) == <<>>

\* ... and element.send_keys(text) types text after what is there.
Typed(v, text) == v \o text

\* The content after a call that clears and types, from what it did.
ContentAfter(v, text, did) ==
    IF did = "clear+type" THEN Typed(Cleared(v), text)
    ELSE IF did = "clear" THEN Cleared(v)
    ELSE v

\* The focused page with the content of its element set to v.
WithContent(sel, v) ==
    IF active = NoTab \/ sel # "#el" THEN page
    ELSE [page EXCEPT ![active].val = v]

InputText(sel, text, f) ==
    /\ call = Idle
    /\ LET r == InputOutcome(sel, f)
           v == ContentAfter(Content(sel), text, r.did)
       IN /\ page' = WithContent(sel, v)
          /\ last' = [Done("input_text", sel, DriverFault(f), Elem(sel), r)
                      EXCEPT !.text = text, !.before = Content(sel), !.val = v]
    /\ UNCHANGED <<session, handles, active, call, callers, graph>>

\* get_element_text: find_element, .text; nothing is caught.
GetElementText(sel, f) ==
    /\ call = Idle
    /\ last' = Done("get_element_text", sel, DriverFault(f), Elem(sel),
                    IF FindFault(sel, f) # "none" THEN Raise(FindFault(sel, f))
                    ELSE Ret("text", "none"))
    /\ UNCHANGED <<session, handles, active, page, call, callers, graph>>

\* get_page_content, scroll, take_screenshot: one driver command each,
\* nothing is caught.
PageLevelOps == {"get_page_content", "scroll", "take_screenshot"}

PageLevelOutcome(f) ==
    IF DriverFault(f) # "none" THEN Raise(DriverFault(f)) ELSE Ret("ok", "none")

PageLevel(op, f) ==
    /\ call = Idle
    /\ last' = Done(op, "", DriverFault(f), "unseen", PageLevelOutcome(f))
    /\ UNCHANGED <<session, handles, active, page, call, callers, graph>>

\* navigate_to_url: driver.get(url), nothing is caught.  A page-load timeout
\* (TimeoutException) leaves the tab on the page it was loading; a loaded
\* page shows what the site serves (pg).
NavigateOutcome(f) ==
    IF DriverFault(f) # "none" THEN Raise(DriverFault(f))
    ELSE Ret("Navigated", "none")

Loaded(url, f, pg) ==
    IF SessionFault # "none" \/ f = "WebDriverException" THEN page
    ELSE IF f = "TimeoutException"
         THEN [page EXCEPT ![active] = PageOf(url, Served("absent", <<>>, <<>>))]
    ELSE [page EXCEPT ![active] = PageOf(url, pg)]

\* The tab and url a caller has selected or navigated to, and whether no
\* other caller has selected or navigated since (own).
Est(t, url) == [tab |-> t, url |-> url, own |-> TRUE]

\* The callers after the running caller's call left the focus on tab t
\* showing url: the other callers' selections are no longer the last ones.
Established(t, url) ==
    [callers EXCEPT !.est =
        [c \in DOMAIN callers.est |->
            IF c = callers.who THEN Est(t, url)
            ELSE [callers.est[c] EXCEPT !.own = FALSE]]]

NavigateToUrl(url, f, pg) ==
    /\ call = Idle
    /\ page' = Loaded(url, f, pg)
    /\ last' = [Done("navigate_to_url", "", DriverFault(f), "unseen",
                     NavigateOutcome(f)) EXCEPT !.url = url]
    /\ callers' = IF active = NoTab THEN callers
                  ELSE Established(active, page'[active].url)
    /\ UNCHANGED <<session, handles, active, call, graph>>

\* ---------------------------------------------------------------- press_key

LowerLetters == {"a", "b", "c", "e", "k", "n", "o", "p", "r", "s", "t"}

\* str.upper(), letter by letter, on the letters the key names are made of.
UpperChar(c) ==
    CASE c = "a" -> "A" [] c = "b" -> "B" [] c = "c" -> "C" [] c = "e" -> "E"
      [] c = "k" -> "K" [] c = "n" -> "N" [] c = "o" -> "O" [] c = "p" -> "P"
      [] c = "r" -> "R" [] c = "s" -> "S" [] c = "t" -> "T" [] OTHER -> c

Upper(k) == [i \in 1 .. Len(k) |-> UpperChar(k[i])]

K_ENTER == <<"E", "N", "T", "E", "R">>
K_TAB == <<"T", "A", "B">>
K_ESC == <<"E", "S", "C">>
K_ESCAPE == <<"E", "S", "C", "A", "P", "E">>
K_SPACE == <<"S", "P", "A", "C", "E">>
K_BACKSPACE == <<"B", "A", "C", "K", "S", "P", "A", "C", "E">>

\* key_map: the vocabulary and the key code of each name.
KeyMapNames == {K_ENTER, K_TAB, K_ESC, K_ESCAPE, K_SPACE, K_BACKSPACE}

KeyCode(k) ==
    CASE k = K_ENTER -> "Keys.ENTER"
      [] k = K_TAB -> "Keys.TAB"
      [] k = K_ESC -> "Keys.ESCAPE"
      [] k = K_ESCAPE -> "Keys.ESCAPE"
      [] k = K_SPACE -> "Keys.SPACE"
      [] k = K_BACKSPACE -> "Keys.BACKSPACE"
      [] OTHER -> "none"

\* The key names the caller passes.
KeyNames ==
    {K_ENTER, <<"e", "n", "t", "e", "r">>, <<"E", "n", "t", "e", "R">>,
     K_TAB, <<"t", "a", "b">>,
     K_ESC, <<"e", "s", "c">>, K_ESCAPE, <<"E", "s", "c", "a", "p", "e">>,
     K_SPACE, <<"s", "p", "a", "c", "e">>,
     K_BACKSPACE, <<"b", "a", "c", "k", "s", "p", "a", "c", "e">>,
     <<"n", "o">>, <<"E", "N", "T", "E", "R", "S">>, <<>>}

\* Mutant: the lookup without upper().
KeyLookupExact(key) == key

\* The name press_key looks up in key_map: key.upper().
KeyLookup(key) == Upper(key)

\* Mutant: a press_key that resolves the selector before it looks at the key.
PressKeyResolvesFirst(key, df, e) ==
    IF FindFaultOf(df, e) # "none" THEN Raise(FindFaultOf(df, e))
    ELSE IF KeyLookup(key) \notin KeyMapNames THEN Ret("Unsupported key", "none")
    ELSE IF SendKeysFault(e) # "none" THEN Raise(SendKeysFault(e))
    ELSE Ret("Pressed", KeyCode(KeyLookup(key)))

\* press_key for the driver fault df of its find_element and the element e
\* that the selector resolves to: the vocabulary check comes first and makes
\* no driver call.
PressKeyOut(key, df, e) ==
    IF KeyLookup(key) \notin KeyMapNames THEN Ret("Unsupported key", "none")
    ELSE IF FindFaultOf(df, e) # "none" THEN Raise(FindFaultOf(df, e))
    ELSE IF SendKeysFault(e) # "none" THEN Raise(SendKeysFault(e))
    ELSE Ret("Pressed", KeyCode(KeyLookup(key)))

\* element.send_keys(code) on content v: BACKSPACE takes the last character,
\* SPACE adds one, the other keys leave the content as it is.
KeySent(v, code) ==
    CASE code = "Keys.BACKSPACE" -> IF v = <<>> THEN v ELSE SubSeq(v, 1, Len(v) - 1)
      [] code = "Keys.SPACE" -> Append(v, " ")
      [] OTHER -> v

PressKey(sel, key, f) ==
    /\ call = Idle
    /\ LET r == PressKeyOut(key, DriverFault(f), Elem(sel))
           v == KeySent(Content(sel), r.did)
       IN /\ Len(v) <= MaxContent
          /\ page' = WithContent(sel, v)
          /\ last' = [Done("press_key", sel, DriverFault(f), Elem(sel), r)
                      EXCEPT !.key = key, !.before = Content(sel), !.val = v,
                             !.hs = handles, !.was = active]
    /\ UNCHANGED <<session, handles, active, call, callers, graph>>

\* ------------------------------------------------------------- tabs, close

\* The handle window.open('') gives the new window.
FreshTab == CHOOSE t \in TabIds : t \notin Range(handles) /\
                \A u \in TabIds : u \notin Range(handles) => t <= u

\* Mutant: switch_tab switching to window_handles[0] whatever the index.
HandleAtFirst(hs, index) == hs[1]

\* Mutant: switch_tab switching to window_handles[-1] whatever the index.
HandleAtLast(hs, index) == hs[Len(hs)]

\* handles[index], Python's 0-based index on the 1-based sequence.
HandleAt(hs, index) == hs[index + 1]

\* switch_tab's range check: index < 0 or index >= len(handles).
OutOfRange(hs, index) == index < 0 \/ index >= Len(hs)

\* Mutant: an index out of range moves the focus to the last tab before the
\* error is raised.
SwitchTargetClamped(hs, index, cur) ==
    IF hs = <<>> THEN cur
    ELSE IF OutOfRange(hs, index) THEN hs[Len(hs)]
    ELSE HandleAt(hs, index)

\* The window that has the focus after switch_tab read the handles hs with
\* the focus on cur: the range check comes before switch_to.window.
SwitchTarget(hs, index, cur) ==
    IF OutOfRange(hs, index) THEN cur ELSE HandleAt(hs, index)

\* Mutant: close_current_tab switching to window_handles[0].
FirstHandle(hs) == hs[1]

\* The handle close_current_tab switches to: window_handles[-1].
LastHandle(hs) == hs[Len(hs)]

\* open_new_tab: window.open(''), switch to window_handles[-1], then
\* driver.get(url) when a url is given; nothing is caught, so a failed get
\* leaves the new tab open and focused.  f is the fault of window.open, g of
\* driver.get, pg what the site serves.
\* Mutant: the url is loaded in the tab the call was made from.
NewTabPagesOpener(t, url, g, pg) ==
    IF url = "" \/ active = NoTab THEN [page EXCEPT ![t] = BlankPage]
    ELSE [page EXCEPT ![t] = BlankPage, ![active] = PageOf(url, pg)]

\* The pages once the new tab t has the focus: driver.get(url), when a url is
\* given, loads it there.
NewTabPages(t, url, g, pg) ==
    [page EXCEPT ![t] =
        IF url = "" \/ g = "WebDriverException" THEN BlankPage
        ELSE IF g = "TimeoutException"
             THEN PageOf(url, Served("absent", <<>>, <<>>))
        ELSE PageOf(url, pg)]

OpenNewTab(url, f, g, pg) ==
    /\ call = Idle
    /\ Len(handles) < MaxTabs
    /\ IF DriverFault(f) # "none"
       THEN /\ last' = [Done("open_new_tab", "", DriverFault(f), "unseen",
                             Raise(DriverFault(f)))
                        EXCEPT !.url = url, !.hs = handles, !.was = active]
            /\ UNCHANGED <<session, handles, active, page, call, callers, graph>>
       ELSE /\ handles' = Append(handles, FreshTab)
            /\ active' = LastHandle(handles')
            /\ page' = NewTabPages(LastHandle(handles'), url, g, pg)
            /\ last' = [Done("open_new_tab", "", IF url = "" THEN "none" ELSE g,
                             "unseen",
                             IF url = "" THEN Ret("Opened new blank tab", "none")
                             ELSE IF g # "none" THEN Raise(g)
                             ELSE Ret("Opened new tab and navigated", "none"))
                        EXCEPT !.url = url, !.hs = handles, !.was = active,
                               !.tab = LastHandle(handles'),
                               !.did = "window.open"]
            /\ callers' = Established(FreshTab, page'[FreshTab].url)
            /\ UNCHANGED <<session, call, graph>>

\* switch_tab: read window_handles, raise IndexError out of range, else
\* switch_to.window(handles[index]).
SwitchTab(index, f) ==
    /\ call = Idle
    /\ LET df == IF session = "closed" THEN "InvalidSessionIdException" ELSE f
           ok == df = "none" /\ ~OutOfRange(handles, index)
       IN /\ active' = IF df = "none" THEN SwitchTarget(handles, index, active)
                       ELSE active
          /\ last' = [Done("switch_tab", "", df, "unseen",
                           IF df # "none" THEN Raise(df)
                           ELSE IF OutOfRange(handles, index) THEN Raise("IndexError")
                           ELSE Ret("Switched to tab", "none"))
                      EXCEPT !.idx = index, !.hs = handles, !.was = active,
                             !.tab = IF ok THEN HandleAt(handles, index) ELSE active]
          /\ callers' = IF ok THEN Established(handles[index + 1],
                                               page[handles[index + 1]].url)
                        ELSE callers
    /\ UNCHANGED <<session, handles, page, call, graph>>

\* close_current_tab: driver.close(), then switch to window_handles[-1] if
\* any handle is left.  Closing the last window either leaves the session
\* with no window or ends it (the driver's choice, ends); when it ends,
\* reading window_handles raises.
CloseCurrentTab(f, ends) ==
    /\ call = Idle
    /\ LET df == DriverFault(f)
           rest == Without(handles, active)
           gone == df = "none" /\ rest = <<>> /\ ends
       IN /\ handles' = IF df # "none" THEN handles ELSE rest
          /\ active' = IF df # "none" THEN active
                       ELSE IF rest = <<>> THEN NoTab
                       ELSE LastHandle(rest)
          /\ session' = IF gone THEN "closed" ELSE session
          /\ page' = IF df # "none" THEN page ELSE [page EXCEPT ![active] = BlankPage]
          /\ last' = [Done("close_current_tab", "", df, "unseen",
                           IF df # "none" THEN Raise(df)
                           ELSE IF gone THEN Raise("InvalidSessionIdException")
                           ELSE Ret("Closed current tab", "none"))
                      EXCEPT !.hs = handles, !.was = active]
          /\ callers' = IF df # "none" THEN callers
                        ELSE IF rest = <<>> THEN Established(NoTab, Blank)
                        ELSE Established(LastHandle(rest), page[LastHandle(rest)].url)
    /\ UNCHANGED <<call, graph>>

\* close_browser: driver.quit().  On a session already quit the driver either
\* swallows the failure or raises it (again).
CloseBrowser(again) ==
    /\ call = Idle
    /\ session' = "closed"
    /\ handles' = <<>>
    /\ active' = NoTab
    /\ page' = [t \in TabIds |-> BlankPage]
    /\ last' = [Done("close_browser", "", "none", "unseen",
                     IF session = "closed" /\ again
                     THEN Raise("InvalidSessionIdException")
                     ELSE Ret("Browser closed", "none"))
                EXCEPT !.hs = handles, !.was = active]
    /\ callers' = Established(NoTab, Blank)
    /\ UNCHANGED <<call, graph>>

\* ------------------------------------------------------------ introspection

\* The record check_element_exists serializes for a found element.
ExistsRecord(e) ==
    CASE Visible(e) /\ Enabled(e) -> "exists=true,visible=true,enabled=true"
      [] Visible(e) /\ ~Enabled(e) -> "exists=true,visible=true,enabled=false"
      [] ~Visible(e) /\ Enabled(e) -> "exists=true,visible=false,enabled=true"
      [] OTHER -> "exists=true,visible=false,enabled=false"

\* Mutant: check_element_exists without its handler.
CheckExistsUncaught(sel, f) ==
    IF FindFault(sel, f) # "none" THEN Raise(FindFault(sel, f))
    ELSE Ret(ExistsRecord(Elem(sel)), "none")

\* check_element_exists: only NoSuchElementException is caught.
CheckExistsOutcome(sel, f) ==
    IF FindFault(sel, f) = "NoSuchElementException"
    THEN Ret("exists=false,visible=false,enabled=false", "none")
    ELSE IF FindFault(sel, f) # "none" THEN Raise(FindFault(sel, f))
    ELSE Ret(ExistsRecord(Elem(sel)), "none")

CheckElementExists(sel, f) ==
    /\ call = Idle
    /\ last' = Done("check_element_exists", sel, DriverFault(f), Elem(sel),
                    CheckExistsOutcome(sel, f))
    /\ UNCHANGED <<session, handles, active, page, call, callers, graph>>

\* ---------------------------------------------------------------- document

\* The lengths the reports are cut to.
ClickableCap == 20
TextCap == 10

\* An element of a document: its tag, its type, id and class attributes (as
\* character strings), whether it has an onclick and an href attribute, its
\* text nodes in document order, what is_displayed() and is_enabled() say of
\* it, and its place: a child of body, or alone in a wrapper of another tag
\* (li, p, td) that is a child of body.
Node(tag, type, id, cls, onclick, href, texts, shown, enabled, wrapped) ==
    [tag |-> tag, type |-> type, id |-> id, cls |-> cls, onclick |-> onclick,
     href |-> href, texts |-> texts, shown |-> shown, enabled |-> enabled,
     wrapped |-> wrapped]

\* The elements the fixture documents are made of.
SubmitButton ==
    Node("button", "submit", <<"g", "o">>, <<>>, TRUE, FALSE,
         <<<<"a", "b">>>>, TRUE, TRUE, FALSE)
ClassedInput ==
    Node("input", "text", <<>>, <<"f", " ", "g">>, FALSE, FALSE,
         <<>>, TRUE, TRUE, TRUE)
SubmitInput ==
    Node("input", "submit", <<>>, <<"f">>, FALSE, FALSE,
         <<>>, TRUE, TRUE, FALSE)
PlainInput ==
    Node("input", "text", <<>>, <<>>, FALSE, FALSE,
         <<>>, TRUE, TRUE, FALSE)
TwoTextDiv ==
    Node("div", "", <<>>, <<>>, FALSE, FALSE,
         <<<<"a">>, <<"b">>>>, TRUE, TRUE, FALSE)
BlankClassLink ==
    Node("a", "", <<>>, <<" ">>, FALSE, TRUE,
         <<<<"b">>>>, TRUE, TRUE, TRUE)

PlainButton ==
    Node("button", "", <<>>, <<>>, FALSE, FALSE,
         <<<<"a">>>>, TRUE, TRUE, FALSE)

NodeKinds ==
    {SubmitButton, ClassedInput, SubmitInput, PlainInput, TwoTextDiv,
     BlankClassLink}

\* The documents a site serves besides the element "#el": every sequence of
\* up to MaxNodes of the elements above, and a page of plain buttons that is
\* longer than the list get_clickable_elements returns.
ManyButtons == [i \in 1 .. ClickableCap + 1 |-> PlainButton]

Docs == UNION {[1 .. n -> NodeKinds] : n \in 0 .. MaxNodes} \cup {ManyButtons}

\* The element "#el" in state e, as an element of the document.
ElNode(e) ==
    Node("input", "text", <<"e", "l">>, <<>>, TRUE, FALSE, <<>>,
         Visible(e), Enabled(e), FALSE)

\* The document of tab t in document order.
Document(t) ==
    IF t = NoTab THEN <<>>
    ELSE IF Present(page[t].el) THEN <<ElNode(page[t].el)>> \o page[t].doc
    ELSE page[t].doc

\* The title of the page at url.
Title(url) == IF url = Blank THEN "" ELSE "Portal"

\* The fixed CSS selectors of the introspection tools, matched against an
\* element.
Matches(css, n) ==
    CASE css = "button" -> n.tag = "button"
      [] css = "input[type='button']" -> n.tag = "input" /\ n.type = "button"
      [] css = "input[type='submit']" -> n.tag = "input" /\ n.type = "submit"
      [] css = "input[type='reset']" -> n.tag = "input" /\ n.type = "reset"
      [] css = "a[href]" -> n.tag = "a" /\ n.href
      [] css = "[onclick]" -> n.onclick
      [] css = "[role='button']" -> FALSE   \* no fixture element has a role
      [] css = "input" -> n.tag = "input"
      [] css = "textarea" -> n.tag = "textarea"
      [] css = "select" -> n.tag = "select"
      [] css = "button[type='submit']" -> n.tag = "button" /\ n.type = "submit"
      [] css = "button, input[type='button'], input[type='submit'], input[type='reset']" ->
            n.tag = "button" \/
            (n.tag = "input" /\ n.type \in {"button", "submit", "reset"})
      [] css = "a" -> n.tag = "a"
      [] css = "input, textarea, select" -> n.tag \in {"input", "textarea", "select"}
      [] css = "form" -> n.tag = "form"
      [] css = "img" -> n.tag = "img"
      [] css = "table" -> n.tag = "table"

\* The positions of a document, in document order.
Positions(doc) == [i \in 1 .. Len(doc) |-> i]

\* driver.find_elements(By.CSS_SELECTOR, css): the positions of the matching
\* elements, in document order.
FindElements(doc, css) ==
    SelectSeq(Positions(doc), LAMBDA i : Matches(css, doc[i]))

\* str.split(): the whitespace-separated tokens of s (cur is the token being
\* read).
RECURSIVE Split(_, _)
Split(s, cur) ==
    IF s = <<>> THEN (IF cur = <<>> THEN <<>> ELSE <<cur>>)
    ELSE IF Head(s) = " "
         THEN (IF cur = <<>> THEN <<>> ELSE <<cur>>) \o Split(Tail(s), <<>>)
    ELSE Split(Tail(s), Append(cur, Head(s)))

\* A synthesized selector: "#name", ".name", "tag:nth-child(k)" or "tag".
Sel(kind, name, tag, k) == [kind |-> kind, name |-> name, tag |-> tag, k |-> k]

\* parent.find_elements(By.TAG_NAME, tag) for the parent of element i: the
\* elements with that tag anywhere under the parent.  Under a wrapper that is
\* the element alone; under body it is every element with the tag, those in
\* wrappers included.
SameTagUnderParent(doc, i) ==
    IF doc[i].wrapped THEN <<i>>
    ELSE SelectSeq(Positions(doc), LAMBDA j : doc[j].tag = doc[i].tag)

\* The loop over `siblings`: the 1-based place of the element in that list.
PositionInList(doc, i) ==
    LET siblings == SameTagUnderParent(doc, i)
    IN CHOOSE k \in 1 .. Len(siblings) : siblings[k] = i

\* _generate_selector: the id, else the first token of the class, else the
\* tag with the position; a class attribute without a token makes split()[0]
\* raise, and the handler returns the bare tag.
GenerateSelector(doc, i) ==
    IF doc[i].id # <<>> THEN Sel("id", doc[i].id, "", 0)
    ELSE IF doc[i].cls # <<>>
         THEN IF Split(doc[i].cls, <<>>) = <<>> THEN Sel("tag", <<>>, doc[i].tag, 0)
              ELSE Sel("class", Split(doc[i].cls, <<>>)[1], "", 0)
    ELSE Sel("nth", <<>>, doc[i].tag, PositionInList(doc, i))

\* What a report lists of element i.
Item(doc, i) ==
    [ix |-> i, sel |-> GenerateSelector(doc, i), shown |-> doc[i].shown,
     enabled |-> doc[i].enabled]

RECURSIVE Before(_, _)
\* The elements of a match list that a loop reaches before element s raises.
Before(m, s) ==
    IF m = <<>> \/ Head(m) = s THEN <<>>
    ELSE <<Head(m)>> \o Before(Tail(m), s)

RECURSIVE Flatten(_)
Flatten(ss) == IF ss = <<>> THEN <<>> ELSE Head(ss) \o Flatten(Tail(ss))

\* Mutant: a slice that keeps the whole list.
WholeList(list, n) == list

\* The first n elements of a list: list[:n].
FirstN(list, n) == SubSeq(list, 1, IF Len(list) < n THEN Len(list) ELSE n)

\* One turn of the loop over the selectors, the k-th, in get_clickable_elements
\* and get_form_elements: find_elements, then the loop over the matches, in
\* one try whose handler is `continue`.  bad: the session refuses every
\* command; q: the find_elements that fails (0: none); s: an element that has
\* gone stale and raises on every read (0: none).
MatchesReached(doc, css, k, bad, q, s) ==
    IF bad \/ q = k THEN <<>> ELSE Before(FindElements(doc, css), s)

ClickableSelectors ==
    <<"button", "input[type='button']", "input[type='submit']",
      "input[type='reset']", "a[href]", "[onclick]", "[role='button']">>

\* all_clickable: the displayed and enabled matches of every selector.
AllClickable(doc, bad, q, s) ==
    Flatten([k \in 1 .. Len(ClickableSelectors) |->
        SelectSeq(MatchesReached(doc, ClickableSelectors[k], k, bad, q, s),
                  LAMBDA i : doc[i].shown /\ doc[i].enabled)])

\* Mutant: the list as it is, duplicates included.
NotUnique(doc, list) == list

\* unique_clickable: the first element of every synthesized selector.
Unique(doc, list) ==
    LET sels == [n \in 1 .. Len(list) |-> GenerateSelector(doc, list[n])]
    IN SelectSeq([n \in 1 .. Len(list) |->
                     IF \E m \in 1 .. (n - 1) : sels[m] = sels[n]
                     THEN 0 ELSE list[n]],
                 LAMBDA i : i # 0)

Items(doc, list) == [n \in 1 .. Len(list) |-> Item(doc, list[n])]

\* get_clickable_elements: count is the length of the unique list, elements
\* its first 20.
ClickableReport(doc, bad, q, s) ==
    LET unique_clickable == Unique(doc, AllClickable(doc, bad, q, s))
    IN [NoRep EXCEPT
           !.count = Len(unique_clickable),
           !.items = Items(doc, FirstN(unique_clickable, ClickableCap))]

FormSelectors == <<"input", "textarea", "select", "button[type='submit']">>

\* Mutant: hidden elements listed too.
ShownOrNot(n) == TRUE

\* element.is_displayed()
IsDisplayed(n) == n.shown

\* get_form_elements: the displayed matches of every selector, all of them.
FormElements(doc, bad, q, s) ==
    Flatten([k \in 1 .. Len(FormSelectors) |->
        SelectSeq(MatchesReached(doc, FormSelectors[k], k, bad, q, s),
                  LAMBDA i : IsDisplayed(doc[i]))])

FormReport(doc, bad, q, s) ==
    [NoRep EXCEPT !.count = Len(FormElements(doc, bad, q, s)),
                  !.items = Items(doc, FormElements(doc, bad, q, s))]

\* Is t a substring of s.
Contains(s, t) ==
    \E i \in 0 .. (Len(s) - Len(t)) : SubSeq(s, i + 1, i + Len(t)) = t

\* XPath 1.0 on an element: in contains(text(), 't') the node-set text() is
\* converted to a string, which is the value of its first node (the empty
\* string without one); in text()='t' the node-set is compared with a string,
\* which holds when some node of it has that value.
XPathMatch(n, text, partial) ==
    IF partial
    THEN Contains(IF n.texts = <<>> THEN <<>> ELSE n.texts[1], text)
    ELSE \E k \in 1 .. Len(n.texts) : n.texts[k] = text

\* find_elements(By.XPATH, ...): the matching elements in document order.
FindByText(doc, text, partial) ==
    SelectSeq(Positions(doc), LAMBDA i : XPathMatch(doc[i], text, partial))

\* find_elements_by_text: count is the number of matches; results are the
\* first 10 of them, each built in a try of its own, so a stale one is left
\* out.
TextReport(doc, text, partial, s) ==
    [NoRep EXCEPT
        !.count = Len(FindByText(doc, text, partial)),
        !.items = Items(doc, SelectSeq(FirstN(FindByText(doc, text, partial), TextCap),
                                       LAMBDA i : i # s))]

\* find_elements_by_text: a fault of find_elements reaches the outer handler.
FindByTextOutcome(n, df) ==
    IF df # "none" THEN Ret("Error searching for text", "none")
    ELSE Ret("Found " \o ToString(n) \o " elements containing text", "none")

\* The texts a caller searches for.
SearchTexts == {<<"a">>, <<"b">>, <<"a", "b">>}

FindElementsByText(text, partial, f, s) ==
    /\ call = Idle
    /\ LET doc == Document(active)
           df == DriverFault(f)
           rep == IF df # "none" THEN NoRep ELSE TextReport(doc, text, partial, s)
           ff == IF df = "none" /\ s \in 1 .. Len(doc)
                 THEN "StaleElementReferenceException" ELSE df
       IN last' = [Done("find_elements_by_text", "", ff, Elem("#el"),
                        FindByTextOutcome(rep.count, df))
                   EXCEPT !.text = text, !.partial = partial, !.stale = s,
                          !.doc = doc, !.rep = rep]
    /\ UNCHANGED <<session, handles, active, page, call, callers, graph>>

\* common_selectors of get_page_info: buttons, links, inputs, forms, images,
\* tables.
CategorySelectors ==
    <<"button, input[type='button'], input[type='submit'], input[type='reset']",
      "a", "input, textarea, select", "form", "img", "table">>

\* The driver commands of get_page_info in order: 1 title, 2 current_url,
\* 3 .. 8 the find_elements of the categories.  q is the command that fails.
CategoryCount(doc, k, q) ==
    IF q = k + 2 THEN 0 ELSE Len(FindElements(doc, CategorySelectors[k]))

\* Mutant: no try around the query of a category: its fault reaches the
\* outer handler.
PageInfoFailsUnguarded(bad, q) == bad \/ q \in 1 .. 8

\* get_page_info fails as a whole when the title or the url cannot be read.
PageInfoFails(bad, q) == bad \/ q \in {1, 2}

PageInfoReport(t, bad, q) ==
    IF PageInfoFails(bad, q) THEN NoRep
    ELSE [NoRep EXCEPT
             !.title = Title(page[t].url),
             !.url = page[t].url,
             !.cats = [k \in 1 .. Len(CategorySelectors) |->
                          CategoryCount(Document(t), k, q)]]

PageInfoOutcome(bad, q) ==
    IF PageInfoFails(bad, q) THEN Ret("Failed to get page info", "none")
    ELSE Ret("page info", "none")

\* get_clickable_elements and get_form_elements: every fault is swallowed by
\* the handler of the selector's turn, so the message is always "Found ...".
ClickableOutcome(n) ==
    Ret("Found " \o ToString(n) \o " clickable elements", "none")

FormOutcome(n) ==
    Ret("Found " \o ToString(n) \o " form elements", "none")

IntrospectionOps ==
    {"get_page_info", "get_clickable_elements", "get_form_elements"}

IntrospectionReport(op, bad, q, s) ==
    CASE op = "get_page_info" -> PageInfoReport(active, bad, q)
      [] op = "get_clickable_elements" -> ClickableReport(Document(active), bad, q, s)
      [] op = "get_form_elements" -> FormReport(Document(active), bad, q, s)

IntrospectionOutcome(op, bad, q, n) ==
    CASE op = "get_page_info" -> PageInfoOutcome(bad, q)
      [] op = "get_clickable_elements" -> ClickableOutcome(n)
      [] op = "get_form_elements" -> FormOutcome(n)

\* The number of page-level driver commands of each tool.
Commands(op) ==
    CASE op = "get_page_info" -> 8
      [] op = "get_clickable_elements" -> 7
      [] op = "get_form_elements" -> 4

\* One introspection call; q: the page-level driver command of the call that
\* fails for a reason of the driver's own (0: none), s: the element that has
\* gone stale (0: none).
Introspect(op, q, s) ==
    /\ call = Idle
    /\ q \in 0 .. Commands(op)
    /\ LET bad == SessionFault # "none"
           doc == Document(active)
           rep == IntrospectionReport(op, bad, q, s)
           ff == IF bad THEN SessionFault
                 ELSE IF q # 0 THEN "WebDriverException"
                 ELSE IF s \in 1 .. Len(doc) /\ op # "get_page_info"
                      THEN "StaleElementReferenceException"
                 ELSE "none"
       IN last' = [Done(op, "", ff, Elem("#el"),
                        IntrospectionOutcome(op, bad, q, rep.count))
                   EXCEPT !.q = q, !.stale = s, !.doc = doc, !.rep = rep]
    /\ UNCHANGED <<session, handles, active, page, call, callers, graph>>

\* ------------------------------------------------------------- environment

\* The page of an open tab changes under the caller: scripts add, remove,
\* show, hide, enable and disable the element; a removed element loses its
\* content.
DomChange(t, e) ==
    /\ session = "open"
    /\ t \in Range(handles)
    /\ page[t].url # Blank
    /\ e # page[t].el
    /\ page' = [page EXCEPT ![t].el = e,
                            ![t].val = IF e = "absent" THEN <<>> ELSE @]
    /\ UNCHANGED <<session, handles, active, call, last, callers, graph>>

\* The content of the element changes under the caller: a script, or a key
\* that was sent to it, rewrites it.
ContentChange(t, v) ==
    /\ session = "open"
    /\ t \in Range(handles)
    /\ Present(page[t].el)
    /\ v # page[t].val
    /\ page' = [page EXCEPT ![t].val = v]
    /\ UNCHANGED <<session, handles, active, call, last, callers, graph>>

\* --------------------------------------------------------- blocking calls

BlockingOps ==
    {"wait_for_element", "safe_click_element", "safe_input_text",
     "wait_for_page_load"}
SafeOps == {"safe_click_element", "safe_input_text"}

Retry == [raised |-> FALSE, out |-> "retry", did |-> "none"]

\* One evaluation of the wait condition, and what follows it when it holds,
\* for the driver fault df of the poll, the element e the selector resolves
\* to and the document's ready state r.
\*  wait_for_element: presence_of_element_located; nothing is caught.
WaitForElementPoll(df, e) ==
    IF df # "none" THEN Raise(df)
    ELSE IF Present(e) THEN Ret("appeared", "none")
    ELSE Retry

\*  safe_click_element: element_to_be_clickable (found, displayed, enabled),
\*  then click.
SafeClickPoll(df, e) ==
    IF df # "none" THEN Ret("Error clicking element", "none")
    ELSE IF Present(e) /\ Visible(e) /\ Enabled(e)
         THEN Ret("Successfully clicked", "click")
    ELSE Retry

\*  safe_input_text: presence_of_element_located, then is_enabled(), clear,
\*  send_keys.
SafeInputPoll(df, e) ==
    IF df # "none" THEN Ret("Error entering text", "none")
    ELSE IF ~Present(e) THEN Retry
    ELSE IF ~Enabled(e) THEN Ret("is disabled and cannot receive input", "none")
    ELSE IF ClearFault(e) = "ElementNotInteractableException"
         THEN Ret("is not interactable", "none")
    ELSE Ret("Successfully entered text", "clear+type")

\* Mutant: a wait that takes any ready state for "complete".
PageLoadPollAnyState(df, r) ==
    IF df # "none" THEN Ret("Error waiting for page load", "none")
    ELSE Ret("Page loaded successfully", "grace")

\*  wait_for_page_load: document.readyState == "complete", then sleep(2).
PageLoadPoll(df, r) ==
    IF df # "none" THEN Ret("Error waiting for page load", "none")
    ELSE IF r THEN Ret("Page loaded successfully", "grace")
    ELSE Retry

\* refresh_page, go_back, go_forward: the driver's command, then
\* self.wait_for_page_load() with its default timeout.
HistoryOps == {"refresh_page", "go_back", "go_forward"}

PageLoadTimeout == 10

HistorySuccess(op) ==
    CASE op = "refresh_page" -> "Page refreshed successfully"
      [] op = "go_back" -> "Navigated back successfully"
      [] op = "go_forward" -> "Navigated forward successfully"

HistoryError(op) ==
    CASE op = "refresh_page" -> "Error refreshing page"
      [] op = "go_back" -> "Error navigating back"
      [] op = "go_forward" -> "Error navigating forward"

\* Mutant: the tool hands on what the wait returned.
AfterWaitPropagated(op, inner) == inner

\*  What the tool returns once the inner wait has returned inner: the wait's
\*  string is dropped.
AfterWait(op, inner) == Ret(HistorySuccess(op), inner.did)

PollOutcome(op, df, e, r) ==
    CASE op = "wait_for_element" -> WaitForElementPoll(df, e)
      [] op = "safe_click_element" -> SafeClickPoll(df, e)
      [] op = "safe_input_text" -> SafeInputPoll(df, e)
      [] op = "wait_for_page_load" -> PageLoadPoll(df, r)
      [] op \in HistoryOps ->
            IF PageLoadPoll(df, r) = Retry THEN Retry
            ELSE AfterWait(op, PageLoadPoll(df, r))

\* What the call does with the TimeoutException of WebDriverWait.until.
TimeoutOutcome(op) ==
    CASE op = "wait_for_element" -> Raise("TimeoutException")
      [] op = "safe_click_element" -> Ret("not clickable within timeout", "none")
      [] op = "safe_input_text" -> Ret("not found within timeout", "none")
      [] op = "wait_for_page_load" -> Ret("Page load timeout", "none")
      [] op \in HistoryOps -> AfterWait(op, Ret("Page load timeout", "none"))

\* WebDriverWait.until: after a failed poll it sleeps one poll interval.
Tick(n) == n + 1

\* Mutant: a wait loop that allows itself one poll more.
ExpiredLate(n, tmo) == n > tmo + 1

\* ... and gives up once the time is past the budget.
Expired(n, tmo) == n > tmo

\* The call is made: the wait loop starts.
StartWait(op, sel, text, tmo) ==
    /\ call = Idle
    /\ call' = [Idle EXCEPT !.op = op, !.tmo = tmo,
                            !.sel = IF op = "wait_for_page_load" THEN "" ELSE sel,
                            !.text = IF op = "safe_input_text" THEN text ELSE <<>>]
    /\ last' = NoCall
    /\ UNCHANGED <<session, handles, active, page, callers, graph>>

\* The driver's history command lands the focused tab on url showing pg (its
\* own url on a refresh); a failure of the command is the tool's error
\* string, otherwise the page-load wait starts.
Landed(op, url, pg) ==
    [page EXCEPT ![active] =
        PageOf(IF op = "refresh_page" THEN page[active].url ELSE url, pg)]

StartHistory(op, f, url, pg) ==
    /\ call = Idle
    /\ IF DriverFault(f) # "none"
       THEN /\ last' = Done(op, "", DriverFault(f), "unseen",
                            Ret(HistoryError(op), "none"))
            /\ UNCHANGED <<page, call, callers>>
       ELSE /\ page' = Landed(op, url, pg)
            /\ call' = [Idle EXCEPT !.op = op, !.tmo = PageLoadTimeout]
            /\ last' = NoCall
            /\ callers' = Established(active, page'[active].url)
    /\ UNCHANGED <<session, handles, active, graph>>

\* One turn of the wait loop: poll; return on a result, else sleep, and raise
\* TimeoutException into the call's handlers when the budget is spent.
Poll(f, r) ==
    /\ call.op # "none"
    /\ LET e == Elem(call.sel)
           df == DriverFault(f)
           o == PollOutcome(call.op, df, e, r)
           same == call.steady /\ call.first \in {"unseen", e}
           v == ContentAfter(Content(call.sel), call.text, o.did)
           fin(res, n) ==
               [Done(call.op, call.sel, df, e, res)
                EXCEPT !.tmo = call.tmo, !.polls = n, !.steady = same,
                       !.text = call.text, !.before = Content(call.sel),
                       !.val = v, !.ready = (df = "none" /\ r),
                       !.inner = IF call.op \notin HistoryOps THEN "none"
                                 ELSE IF o = Retry THEN "Page load timeout"
                                 ELSE PageLoadPoll(df, r).out]
       IN IF o # Retry
          THEN /\ last' = fin(o, call.elapsed + 1)
               /\ page' = WithContent(call.sel, v)
               /\ call' = Idle
          ELSE IF Expired(Tick(call.elapsed), call.tmo)
          THEN /\ last' = fin(TimeoutOutcome(call.op), Tick(call.elapsed))
               /\ call' = Idle
               /\ UNCHANGED page
          ELSE /\ call' = [call EXCEPT !.elapsed = Tick(call.elapsed),
                                       !.first = IF call.first = "unseen" THEN e
                                                 ELSE call.first,
                                       !.steady = same]
               /\ UNCHANGED <<last, page>>
    /\ UNCHANGED <<session, handles, active, callers, graph>>

\* -------------------------------------------------------------- agent graph

\* A message of the conversation: its class and the length of its tool_calls
\* (NoAttr on an object without the attribute).
NoAttr == -1
Msg(type, calls) == [type |-> type, calls |-> calls]
SystemMessage == Msg("system", NoAttr)
HumanMessage == Msg("human", NoAttr)
ToolMessage == Msg("tool", NoAttr)
AIMessage(calls) == Msg("ai", calls)

\* The input of one run: prompt_template.invoke(...).to_messages().
Prompt == <<SystemMessage, HumanMessage>>

\* route_tools: the last message decides; no message at all is a ValueError.
RouteToolsLenient(messages) ==
    IF messages = <<>> THEN "ValueError"
    ELSE IF messages[Len(messages)].type = "ai" THEN "tools" ELSE "END"

RouteTools(messages) ==
    IF messages = <<>> THEN "ValueError"
    ELSE LET ai_message == messages[Len(messages)]
         IN IF /\ ai_message.calls # NoAttr
               /\ ai_message.type = "ai"
               /\ ai_message.calls > 0
            THEN "tools"
            ELSE "END"

\* add_edge(START, "chatbot"), add_edge("tools", "chatbot").
Edge(node) ==
    CASE node = "START" -> "chatbot"
      [] node = "tools" -> "chatbot"

\* add_conditional_edges("chatbot", route_tools, {"tools": "tools", END: END}).
ConditionalEdge(messages) == RouteTools(messages)

NoRun == [messages |-> <<>>, node |-> "END", trace |-> <<>>,
          routed |-> [on |-> <<>>, out |-> "none"]]

\* The messages a run may still add: a model step that asks for n tools
\* leaves room for their results and for the model's answer to them.
Room(n) == Len(graph.messages) + 1 + (IF n > 0 THEN n + 1 ELSE 0) <= MaxMessages

\* graph.stream(input): the input is added to the thread's messages and the
\* run enters at START's successor.
Stream ==
    /\ graph.node = "END"
    /\ Len(graph.messages) + Len(Prompt) + 1 <= MaxMessages
    /\ graph' = [graph EXCEPT !.messages = graph.messages \o Prompt,
                              !.node = Edge("START"),
                              !.trace = <<>>]
    /\ UNCHANGED <<session, handles, active, page, call, last, callers>>

\* The chatbot node: the model's message (n tool calls) is added and the
\* conditional edge picks the next node; when the model call raises the run
\* ends with nothing added.
Chatbot(n, raises) ==
    /\ graph.node = "chatbot"
    /\ Room(n)
    /\ LET messages == IF raises THEN graph.messages
                       ELSE Append(graph.messages, AIMessage(n))
       IN graph' = [graph EXCEPT !.messages = messages,
                                 !.node = IF raises THEN "END"
                                          ELSE ConditionalEdge(messages),
                                 !.trace = Append(graph.trace, "chatbot")]
    /\ UNCHANGED <<session, handles, active, page, call, last, callers>>

\* The tools node: one ToolMessage for every tool call of the last message,
\* a tool's failure included, then the edge to the chatbot.
Tools ==
    /\ graph.node = "tools"
    /\ LET message == graph.messages[Len(graph.messages)]
       IN graph' = [graph EXCEPT !.messages = graph.messages \o
                                     [i \in 1 .. message.calls |-> ToolMessage],
                                 !.node = Edge("tools"),
                                 !.trace = Append(graph.trace, "tools")]
    /\ UNCHANGED <<session, handles, active, page, call, last, callers>>

\* The states route_tools is called on directly.
RoutedStates ==
    {<<>>, <<HumanMessage>>, <<AIMessage(0)>>, <<AIMessage(1)>>,
     <<HumanMessage, AIMessage(MaxCalls)>>, <<AIMessage(1), ToolMessage>>,
     <<Msg("tool", 1)>>, <<Msg("human", 0)>>}

RouteCall(messages) ==
    /\ graph' = [graph EXCEPT !.routed = [on |-> messages,
                                          out |-> RouteTools(messages)]]
    /\ UNCHANGED <<session, handles, active, page, call, last, callers>>

Init ==
    /\ session = "open"
    /\ handles = <<1>>
    /\ active = 1
    /\ page = [t \in TabIds |-> BlankPage]
    /\ call = Idle
    /\ last = NoCall
    /\ callers = [who |-> 1, est |-> [c \in Callers |-> Est(1, Blank)]]
    /\ graph = NoRun

\* The catalog on the session's first window: every tool but open_new_tab,
\* with the page changing under the caller.
Next ==
    \/ \E sel \in Selectors, f \in Faults : ClickElement(sel, f)
    \/ \E sel \in Selectors, f \in Faults : InputText(sel, <<"a">>, f)
    \/ \E sel \in Selectors, f \in Faults : GetElementText(sel, f)
    \/ \E op \in PageLevelOps, f \in Faults : PageLevel(op, f)
    \/ \E url \in Urls, f \in NavFaults, e \in ElStates :
          NavigateToUrl(url, f, Served(e, <<>>, <<>>))
    \/ \E sel \in Selectors, key \in KeyNames, f \in Faults : PressKey(sel, key, f)
    \/ \E index \in TabIndexes, f \in Faults : SwitchTab(index, f)
    \/ \E f \in Faults, ends \in BOOLEAN : CloseCurrentTab(f, ends)
    \/ \E again \in BOOLEAN : CloseBrowser(again)
    \/ \E sel \in Selectors, f \in Faults : CheckElementExists(sel, f)
    \/ \E op \in IntrospectionOps, q \in {0, 1} : Introspect(op, q, 0)
    \/ \E f \in Faults : FindElementsByText(<<"a">>, TRUE, f, 0)
    \/ \E t \in TabIds, e \in ElStates : DomChange(t, e)
    \/ \E op \in BlockingOps, sel \in Selectors, tmo \in Timeouts :
          StartWait(op, sel, <<"a">>, tmo)
    \/ \E f \in Faults, r \in BOOLEAN : Poll(f, r)

Spec == Init /\ [][Next]_vars

\* The wait loop runs in the calling thread: a call in flight keeps polling.
FairSpec == Spec /\ WF_vars(\E f \in Faults, r \in BOOLEAN : Poll(f, r))

\* The tab operations on up to MaxTabs tabs, with the operations that act on
\* the focused tab between them; pages load with the element ready.
TabNext ==
    \/ \E url \in Urls \cup {""}, f \in Faults, g \in NavFaults :
          OpenNewTab(url, f, g, Served("ready", <<>>, <<>>))
    \/ \E index \in TabIndexes, f \in Faults : SwitchTab(index, f)
    \/ \E f \in Faults, ends \in BOOLEAN : CloseCurrentTab(f, ends)
    \/ \E again \in BOOLEAN : CloseBrowser(again)
    \/ \E url \in Urls, f \in NavFaults :
          NavigateToUrl(url, f, Served("ready", <<>>, <<>>))
    \/ \E sel \in Selectors, f \in Faults : ClickElement(sel, f)
    \/ \E sel \in Selectors, f \in Faults : CheckElementExists(sel, f)

TabSpec == Init /\ [][TabNext]_vars

\* The tools that type, on one page whose element the site serves with some
\* content and whose scripts change it.
InputNext ==
    \/ \E url \in Urls, e \in ElStates \ {"absent"}, v \in Contents :
          NavigateToUrl(url, "none", Served(e, v, <<>>))
    \/ \E sel \in Selectors, text \in Texts, f \in Faults : InputText(sel, text, f)
    \/ \E sel \in Selectors, text \in Texts, tmo \in Timeouts :
          StartWait("safe_input_text", sel, text, tmo)
    \/ \E f \in Faults, r \in BOOLEAN : Poll(f, r)
    \/ \E t \in TabIds, v \in Contents : ContentChange(t, v)
    \/ \E t \in TabIds, e \in ElStates : DomChange(t, e)

InputSpec == Init /\ [][InputNext]_vars

\* The introspection tools on the first page the session loads, for every
\* document a site serves, with at most one fault in a call.  The tools read
\* the page and leave it as it is, so the call that follows the load stands
\* for every later one.
DomNext ==
    \/ \E url \in Urls, e \in ElStates, d \in Docs :
          /\ page[active].url = Blank
          /\ NavigateToUrl(url, "none", Served(e, <<>>, d))
    \/ \E op \in IntrospectionOps, q \in 0 .. 8, s \in 0 .. (MaxNodes + 1) :
          /\ last.op = "navigate_to_url"
          /\ q = 0 \/ s = 0
          /\ Introspect(op, q, s)
    \/ \E text \in SearchTexts, partial \in BOOLEAN, f \in Faults,
          s \in 0 .. (MaxNodes + 1) :
          /\ last.op = "navigate_to_url"
          /\ f = "none" \/ s = 0
          /\ FindElementsByText(text, partial, f, s)

DomSpec == Init /\ [][DomNext]_vars

\* Another thread gets to call the catalog: nothing in BrowserTools keeps two
\* threads from calling it in turn.
Schedule(c) ==
    /\ call = Idle
    /\ c # callers.who
    /\ callers' = [callers EXCEPT !.who = c]
    /\ UNCHANGED <<session, handles, active, page, call, last, graph>>

\* Two callers on up to RaceTabs tabs and two sites, calls taken one at a
\* time but from either caller.
RaceNext ==
    \/ \E c \in Callers : Schedule(c)
    \/ /\ Len(handles) < RaceTabs
       /\ OpenNewTab("", "none", "none", Served("ready", <<>>, <<>>))
    \/ \E index \in 0 .. (RaceTabs - 1) : SwitchTab(index, "none")
    \/ \E url \in RaceUrls : NavigateToUrl(url, "none", Served("ready", <<>>, <<>>))
    \/ \E sel \in Selectors : ClickElement(sel, "none")
    \/ \E sel \in Selectors : CheckElementExists(sel, "none")

RaceSpec == Init /\ [][RaceNext]_vars

\* The history tools on the first window, between navigations and up to the
\* end of the session.
HistoryNext ==
    \/ \E url \in Urls, f \in NavFaults, e \in ElStates :
          NavigateToUrl(url, f, Served(e, <<>>, <<>>))
    \/ \E op \in HistoryOps, f \in Faults, url \in Urls \cup {Blank},
          e \in ElStates : StartHistory(op, f, url, Served(e, <<>>, <<>>))
    \/ \E f \in Faults, r \in BOOLEAN : Poll(f, r)
    \/ \E again \in BOOLEAN : CloseBrowser(again)

HistorySpec == Init /\ [][HistoryNext]_vars

\* The agent graph over a thread of up to MaxMessages messages, run after
\* run, and route_tools called on its own.
GraphNext ==
    \/ Stream
    \/ \E n \in 0 .. MaxCalls, raises \in BOOLEAN : Chatbot(n, raises)
    \/ Tools
    \/ \E messages \in RoutedStates : RouteCall(messages)

GraphSpec == Init /\ [][GraphNext]_vars

\* ------------------------------------------------------------------ claims

SelectorOps ==
    {"click_element", "input_text", "get_element_text", "press_key",
     "check_element_exists"} \cup (BlockingOps \ {"wait_for_page_load"})
TabOps == {"open_new_tab", "switch_tab", "close_current_tab", "close_browser"}

\* The exception classes of the driver library.
DriverExceptions ==
    {"NoSuchElementException", "TimeoutException",
     "ElementNotInteractableException", "InvalidElementStateException",
     "WebDriverException", "InvalidSessionIdException",
     "NoSuchWindowException"}

\* The call had a window to work on and the driver had no fault of its own.
Undisturbed == last.sess = "open" /\ last.fault = "none"

\* C1: on a selector that matches nothing, click_element and input_text fail
\* with the driver's not-found signal (NoSuchElementException) and touch
\* nothing, and check_element_exists returns the record exists=false,
\* visible=false, enabled=false without raising.
C1_NotFound ==
    (Undisturbed /\ last.el = "absent") =>
        /\ last.op \in {"click_element", "input_text"} =>
              last.raised /\ last.out = "NoSuchElementException" /\ last.did = "none"
        /\ last.op = "check_element_exists" =>
              ~last.raised /\ last.out = "exists=false,visible=false,enabled=false"

C1_Witness ==
    /\ last.op = "check_element_exists"
    /\ last.sel = "#el"
    /\ Undisturbed
    /\ last.el = "absent"
    /\ page[last.tab].url # Blank
    /\ ~last.raised

\* What a tool returns, instead of raising, to report that it failed.
FailureOuts ==
    {"Error clicking element", "Error entering text",
     "Error waiting for page load", "Error searching for text",
     "Failed to get page info", "Unsupported key",
     "not clickable within timeout", "not found within timeout",
     "Page load timeout", "is disabled and cannot receive input",
     "is not interactable"}

\* C2 (as claimed): every tool call made on a quit session, or with no tab
\* focused, reports a failure, by raising or by an error result; none returns
\* a result shaped like a success, an empty one included.
C2_SessionStateFailure ==
    (last.op \notin {"none", "close_browser"} /\ last.sess \in {"closed", "notab"}) =>
        last.raised \/ last.out \in FailureOuts

\* C3 (as claimed): no exception of the driver library reaches the caller.
C3_NoRawDriverException ==
    (last.op # "none" /\ last.raised) => last.out \notin DriverExceptions

\* The terminal result of a safe operation on an element that stays in state
\* e for the whole call.
SteadyOutcome(op, e) ==
    IF PollOutcome(op, "none", e, FALSE) = Retry THEN TimeoutOutcome(op)
    ELSE PollOutcome(op, "none", e, FALSE)

\* C4 (as claimed): the failure a safe operation returns for an absent, a
\* hidden or a disabled element is returned for neither of the other two.
C4_ThreeFailureKinds ==
    (last.op \in SafeOps /\ Undisturbed /\ last.steady
        /\ last.el \in {"absent", "hidden", "disabled"}) =>
        \A e \in {"absent", "hidden", "disabled"} \ {last.el} :
            SteadyOutcome(last.op, e).out # last.out

\* C5 (as claimed): a safe operation acts only on an element it saw present,
\* displayed and enabled, and gives up only when it has polled for the
\* whole timeout (timeout + 1 polls) without seeing one.
C5_PollsUntilInteractable ==
    (last.op \in SafeOps /\ Undisturbed) =>
        /\ last.did # "none" => last.el = "ready"
        /\ last.did = "none" => last.polls = last.tmo + 1

\* C6 (as claimed): wait_for_element returns a result, success or failure,
\* and does not raise when the timeout expires with the element absent.
C6_WaitReturnsFailure ==
    (last.op = "wait_for_element" /\ Undisturbed) =>
        /\ ~last.raised
        /\ Present(last.el) <=> last.out = "appeared"

\* C7: a blocking call polls at most timeout + 1 times and then ends, whatever
\* the page does; a safe operation with timeout 0 on an absent element ends
\* after one poll with its timeout result.
C7_Terminates ==
    /\ [](call.op # "none" => call.elapsed <= call.tmo)
    /\ [](last.op \in BlockingOps => last.polls \in 1 .. (last.tmo + 1))
    /\ (call.op # "none") ~> (call = Idle)
    /\ []((last.op \in SafeOps /\ Undisturbed /\ last.tmo = 0 /\ last.el = "absent") =>
            /\ ~last.raised
            /\ last.out = TimeoutOutcome(last.op).out
            /\ last.polls = 1)

C7_Witness ==
    /\ last.op = "safe_click_element"
    /\ Undisturbed
    /\ last.tmo = 0
    /\ last.el = "absent"
    /\ last.out = "not clickable within timeout"

\* C8: switch_tab raises IndexError for an index outside [0, tab_count) and
\* leaves the focus where it was; for an index inside it focuses the tab at
\* that position; every operation that is not a tab operation leaves the
\* focus alone and works on the focused tab's page.
C8_SwitchTab ==
    /\ []((last.op = "switch_tab" /\ last.sess # "closed" /\ last.fault = "none") =>
            IF last.idx \in 0 .. (Len(last.hs) - 1)
            THEN ~last.raised /\ active = last.hs[last.idx + 1] /\ last.tab = active
            ELSE last.raised /\ last.out = "IndexError" /\ active = last.was)
    /\ [][(last' # last /\ last'.op \notin TabOps \cup {"none"}) =>
            /\ active' = active
            /\ last'.tab = active
            /\ \A t \in TabIds \ {active} : page'[t] = page[t]
            /\ (last'.op \in SelectorOps /\ last'.sel = "#el" /\ active # NoTab) =>
                  last'.el = page[active].el]_vars

C8_Witness ==
    /\ last.op = "click_element"
    /\ last.sel = "#el"
    /\ ~last.raised
    /\ Len(handles) = 3
    /\ active = handles[2]
    /\ page[handles[3]].url = Blank

\* C9: close_current_tab removes the focused tab from the tab list; with
\* tabs left the focus is on the last of them, whichever tab was closed;
\* with none left the list is empty and no tab has the focus.
C9_CloseTab ==
    (last.op = "close_current_tab" /\ last.sess = "open" /\ last.fault = "none") =>
        /\ last.was \notin Range(handles)
        /\ handles = Without(last.hs, last.was)
        /\ Len(handles) = Len(last.hs) - 1
        /\ IF Len(last.hs) >= 2 THEN active = handles[Len(handles)]
           ELSE handles = <<>> /\ active = NoTab

C9_Witness ==
    /\ last.op = "close_current_tab"
    /\ ~last.raised
    /\ Len(last.hs) = 3
    /\ last.was = last.hs[1]
    /\ active = last.hs[3]

\* Two key names that differ only in the case of their letters.
SameButCase(k1, k2) ==
    /\ Len(k1) = Len(k2)
    /\ \A i \in 1 .. Len(k1) :
          \/ k1[i] = k2[i]
          \/ k1[i] \in LowerLetters /\ k2[i] = UpperChar(k1[i])
          \/ k2[i] \in LowerLetters /\ k1[i] = UpperChar(k2[i])

\* C10: press_key gives key names that differ only in case the same outcome
\* and sends the same key for them; ESC and ESCAPE send the same key; a name
\* whose upper-case form is not in the vocabulary gets the rejection, without
\* raising and without a key sent.
C10_PressKey ==
    last.op = "press_key" =>
        /\ \A k \in KeyNames :
              SameButCase(k, last.key) =>
                  PressKeyOut(k, last.fault, last.el) =
                      [raised |-> last.raised, out |-> last.out, did |-> last.did]
        /\ ((\E v \in KeyMapNames : SameButCase(v, last.key))
               /\ Undisturbed /\ last.el = "ready") =>
                  /\ ~last.raised
                  /\ last.out = "Pressed"
                  /\ \A v \in KeyMapNames :
                        SameButCase(v, last.key) => last.did = KeyCode(v)
        /\ (\E v \in {K_ESC, K_ESCAPE} : SameButCase(v, last.key)) =>
              last.did \in {"none", "Keys.ESCAPE"}
        /\ (~\E v \in KeyMapNames : SameButCase(v, last.key)) =>
              ~last.raised /\ last.out = "Unsupported key" /\ last.did = "none"

C10_Witness ==
    /\ last.op = "press_key"
    /\ last.key = <<"e", "s", "c">>
    /\ last.did = "Keys.ESCAPE"
    /\ last.out = "Pressed"

\* The tools whose reports list elements with a synthesized selector.
ListingOps ==
    {"get_clickable_elements", "get_form_elements", "find_elements_by_text"}

\* The element's 1-based position among the elements of its tag that are
\* children of its parent.
PositionAmongSiblings(doc, i) ==
    IF doc[i].wrapped THEN 1
    ELSE Cardinality({j \in 1 .. i : ~doc[j].wrapped /\ doc[j].tag = doc[i].tag})

\* The selector the claim gives element i: the id, else the first token of
\* the class, else the tag with the position among its same-tag siblings.
ClaimedSelector(doc, i) ==
    IF doc[i].id # <<>> THEN Sel("id", doc[i].id, "", 0)
    ELSE IF Split(doc[i].cls, <<>>) # <<>>
         THEN Sel("class", Split(doc[i].cls, <<>>)[1], "", 0)
    ELSE Sel("nth", <<>>, doc[i].tag, PositionAmongSiblings(doc, i))

\* C11 (as claimed): every element a report lists has the selector '#id' if
\* it has an id, else '.c' for the first token c of its class, else
\* 'tag:nth-child(k)' for its position k among its same-tag siblings.  (Of
\* the elements whose class attribute, when it is not empty, has a token.)
C11_SelectorSynthesis ==
    last.op \in ListingOps =>
        \A n \in 1 .. Len(last.rep.items) :
            LET i == last.rep.items[n].ix
            IN (last.doc[i].cls = <<>> \/ Split(last.doc[i].cls, <<>>) # <<>>) =>
                  last.rep.items[n].sel = ClaimedSelector(last.doc, i)

\* A call that typed its text.
TypedOk ==
    \/ last.op = "input_text" /\ last.out = "Entered text"
    \/ last.op = "safe_input_text" /\ last.out = "Successfully entered text"

\* C12: after a successful input_text or safe_input_text the content of the
\* element is exactly the text of the call, whatever it was before; after two
\* successful calls in a row it is the text of the second.
C12_Overwrite ==
    /\ [](TypedOk => last.val = last.text /\ last.did = "clear+type")
    /\ [][(last' # last /\ TypedOk') =>
             /\ page'[active].val = last'.text
             /\ last'.before = page[active].val]_vars

C12_Witness ==
    /\ last.op = "input_text"
    /\ TypedOk
    /\ last.before = <<"b", "a">>
    /\ last.text = <<"b">>
    /\ page[active].val = <<"b">>

\* C13: get_page_info returns the title, the url and the six counts; the
\* count of a category whose query fails is 0, and the title, the url and
\* the other counts are the page's.
C13_PageInfo ==
    (last.op = "get_page_info" /\ last.sess = "open" /\ last.q \notin {1, 2}) =>
        /\ ~last.raised
        /\ last.out = "page info"
        /\ last.rep.title = Title(page[last.tab].url)
        /\ last.rep.url = page[last.tab].url
        /\ Len(last.rep.cats) = 6
        /\ \A k \in 1 .. 6 :
              last.rep.cats[k] =
                  IF last.q = k + 2 THEN 0
                  ELSE Cardinality({i \in 1 .. Len(last.doc) :
                                      Matches(CategorySelectors[k], last.doc[i])})

C13_Witness ==
    /\ last.op = "get_page_info"
    /\ last.q = 3
    /\ last.out = "page info"
    /\ last.doc = <<SubmitButton, BlankClassLink>>
    /\ last.rep.cats = <<0, 1, 0, 0, 0, 0>>

\* The report of the same call on the same page without the fault.
FaultFree ==
    CASE last.op = "get_clickable_elements" -> ClickableReport(last.doc, FALSE, 0, 0)
      [] last.op = "get_form_elements" -> FormReport(last.doc, FALSE, 0, 0)
      [] last.op = "find_elements_by_text" ->
            TextReport(last.doc, last.text, last.partial, 0)

\* C14 (as claimed): when one element faults, the report of an introspection
\* tool still lists every other element that it lists without the fault.
C14_PartialReports ==
    (last.op \in ListingOps /\ last.sess = "open" /\ last.q = 0
        /\ last.fault \in {"none", "StaleElementReferenceException"}) =>
        \A item \in Range(FaultFree.items) :
            item.ix # last.stale => item \in Range(last.rep.items)

\* C15: get_clickable_elements lists at most 20 elements (exactly 20 when it
\* found more), each displayed and enabled, no two with the same synthesized
\* selector, and no element twice, however many of the fixed selectors match
\* it.
C15_Clickable ==
    last.op = "get_clickable_elements" =>
        LET items == last.rep.items
        IN /\ Len(items) <= ClickableCap
           /\ last.rep.count > ClickableCap => Len(items) = ClickableCap
           /\ last.rep.count <= ClickableCap => Len(items) = last.rep.count
           /\ \A n \in 1 .. Len(items) :
                 last.doc[items[n].ix].shown /\ last.doc[items[n].ix].enabled
           /\ \A n, m \in 1 .. Len(items) :
                 n # m => items[n].sel # items[m].sel /\ items[n].ix # items[m].ix

C15_Witness ==
    /\ last.op = "get_clickable_elements"
    /\ last.fault = "none"
    /\ last.el = "disabled"
    /\ last.doc = <<ElNode("disabled"), SubmitButton, BlankClassLink>>
    /\ last.rep.count = 2

\* The elements get_form_elements is for: input, textarea, select, and
\* submit buttons.
IsFormControl(n) ==
    \/ n.tag \in {"input", "textarea", "select"}
    \/ n.tag = "button" /\ n.type = "submit"

\* C16: on a loaded page and without a fault, the count of get_form_elements
\* is the number of displayed form controls of the page, and every one of
\* them is listed exactly once, whether or not they share an id or a first
\* class token; elements that are not displayed are not listed.
C16_FormCount ==
    (last.op = "get_form_elements" /\ last.sess = "open" /\ last.fault = "none") =>
        LET shown == {i \in 1 .. Len(last.doc) :
                         IsFormControl(last.doc[i]) /\ last.doc[i].shown}
        IN /\ last.rep.count = Cardinality(shown)
           /\ Len(last.rep.items) = last.rep.count
           /\ \A i \in shown :
                 Cardinality({n \in 1 .. Len(last.rep.items) :
                                 last.rep.items[n].ix = i}) = 1
           /\ \A n \in 1 .. Len(last.rep.items) : last.rep.items[n].ix \in shown

C16_Witness ==
    /\ last.op = "get_form_elements"
    /\ last.fault = "none"
    /\ page[last.tab].url # Blank
    /\ last.doc = <<ElNode("hidden"), ClassedInput, SubmitInput>>
    /\ last.rep.count = 2
    /\ last.rep.items[1].sel = last.rep.items[2].sel

\* The text of an element that has at most one text node.
TextOf(n) == IF n.texts = <<>> THEN <<>> ELSE n.texts[1]

\* C17 (as claimed): without a fault, partial_match=true counts the elements
\* whose text contains the searched text and partial_match=false those whose
\* text equals it (stated of pages whose elements have one text node at
\* most), and the count for true is never below the count for false on the
\* same page and text.
C17_TextMatch ==
    (last.op = "find_elements_by_text" /\ last.sess = "open" /\ last.fault = "none") =>
        /\ (\A i \in 1 .. Len(last.doc) : Len(last.doc[i].texts) <= 1) =>
              last.rep.count =
                  Cardinality({i \in 1 .. Len(last.doc) :
                      /\ last.doc[i].texts # <<>>
                      /\ IF last.partial
                         THEN Contains(TextOf(last.doc[i]), last.text)
                         ELSE TextOf(last.doc[i]) = last.text})
        /\ ~last.partial =>
              TextReport(last.doc, last.text, TRUE, 0).count >= last.rep.count

\* C18 (as claimed): the session goes from open to closed only in a call of
\* close_browser, and a closed session stays closed.
C18_OneSession ==
    /\ [][(session = "open" /\ session' = "closed") => last'.op = "close_browser"]_vars
    /\ [][session = "closed" => session' = "closed"]_vars

\* C20: wait_for_page_load returns its success result only for a poll that
\* saw the ready state complete, and then after the grace delay; when no poll
\* within the timeout saw it complete it returns the timeout result, without
\* raising and without the delay.
C20_PageLoad ==
    last.op = "wait_for_page_load" =>
        /\ ~last.raised
        /\ last.out = "Page loaded successfully" => last.ready /\ last.did = "grace"
        /\ (last.fault = "none" /\ last.ready) => last.out = "Page loaded successfully"
        /\ (last.fault = "none" /\ ~last.ready) =>
              /\ last.out = "Page load timeout"
              /\ last.did = "none"
              /\ last.polls = last.tmo + 1
        /\ last.out = "Page load timeout" => ~last.ready /\ last.did = "none"

C20_Witness ==
    /\ last.op = "wait_for_page_load"
    /\ last.tmo = 1
    /\ last.polls = 2
    /\ last.out = "Page loaded successfully"
    /\ last.did = "grace"

\* The tools that act on the page of the focused tab.
PageOps == {"click_element", "check_element_exists"}

\* C19: a call of a caller after whose last selection or navigation no other
\* caller has selected or navigated acts on the tab and the page that this
\* caller selected or navigated to; among two callers whose calls alternate,
\* a call acts on another tab than the one its caller selected (the witness).
C19_SingleCaller ==
    (last.op \in PageOps /\ callers.est[last.who].own) =>
        /\ last.tab = callers.est[last.who].tab
        /\ active = last.tab
        /\ page[last.tab].url = callers.est[last.who].url

C19_Witness ==
    /\ last.op = "click_element"
    /\ last.sel = "#el"
    /\ last.raised
    /\ ~callers.est[last.who].own
    /\ callers.est[last.who].url = "http://portal"
    /\ last.tab # callers.est[last.who].tab
    /\ page[last.tab].url = Blank

\* An AI message that carries at least one tool call.
AsksForTools(m) == m.type = "ai" /\ m.calls # NoAttr /\ m.calls > 0

LastAsksForTools(messages) ==
    messages # <<>> /\ AsksForTools(messages[Len(messages)])

C22_HistoryTools ==
    last.op \in HistoryOps =>
        /\ ~last.raised
        /\ last.polls = 0 => (last.fault # "none" /\ last.out = HistoryError(last.op))
        /\ last.polls > 0 =>
              /\ last.out = HistorySuccess(last.op)
              /\ last.inner \in {"Page loaded successfully", "Page load timeout",
                                 "Error waiting for page load"}
              /\ (last.inner = "Page loaded successfully") = last.ready

\* refresh_page reported success after its wait for the page timed out.
C22_Witness ==
    /\ last.op = "refresh_page"
    /\ last.out = "Page refreshed successfully"
    /\ last.inner = "Page load timeout"
    /\ last.polls = PageLoadTimeout + 1
    /\ ~last.ready

\* C23: press_key with a key name outside the vocabulary returns the
\* rejection and has sent no key, whatever the selector resolves to and
\* whether or not the session is open: the call leaves the session, the
\* tabs, the focus and every page as they were.
C23_UnknownKey ==
    /\ [](last.op = "press_key" /\ Upper(last.key) \notin KeyMapNames =>
            /\ ~last.raised
            /\ last.out = "Unsupported key"
            /\ last.did = "none"
            /\ last.val = last.before
            /\ handles = last.hs /\ active = last.was
            /\ session = (IF last.sess = "closed" THEN "closed" ELSE "open"))
    /\ [][(last'.op = "press_key" /\ last' # last
           /\ Upper(last'.key) \notin KeyMapNames) =>
              UNCHANGED <<session, handles, active, page>>]_vars

\* An unknown key was rejected on a session that is closed.
C23_Witness ==
    /\ last.op = "press_key"
    /\ last.key = <<"n", "o">>
    /\ last.sess = "closed"
    /\ last.fault = "InvalidSessionIdException"
    /\ last.out = "Unsupported key"

\* The elements of the page that the last call's query matched: some clickable
\* selector, or the text query.
ClickableMatches ==
    {i \in DOMAIN last.doc :
        \E k \in DOMAIN ClickableSelectors : Matches(ClickableSelectors[k], last.doc[i])}

TextMatches ==
    {i \in DOMAIN last.doc : XPathMatch(last.doc[i], last.text, last.partial)}

\* The last call built its record (the outer handler was not reached) and
\* one of the elements it described had gone stale.
Described ==
    CASE last.op = "get_clickable_elements" ->
            {i \in ClickableMatches : last.doc[i].shown /\ last.doc[i].enabled}
      [] last.op = "find_elements_by_text" ->
            {i \in TextMatches : Cardinality({j \in TextMatches : j < i}) < TextCap}
      [] OTHER -> {}

FaultedInDescription ==
    /\ last.fault = "StaleElementReferenceException"
    /\ last.stale \in Described

\* C24 (as claimed): in the records of get_clickable_elements and
\* find_elements_by_text the list has at most 20 / 10 entries, count is at
\* least the length of the list, and count is larger than the length of the
\* list whenever more elements than the cap were found or a matched element
\* faulted while it was described; in the record of get_form_elements count
\* is the length of the list.
C24_CountAsClaimed ==
    /\ last.op \in {"get_clickable_elements", "find_elements_by_text"} =>
          /\ Len(last.rep.items) <=
                (IF last.op = "get_clickable_elements" THEN ClickableCap ELSE TextCap)
          /\ last.rep.count >= Len(last.rep.items)
          /\ (last.rep.count > ClickableCap /\ last.op = "get_clickable_elements")
                => last.rep.count > Len(last.rep.items)
          /\ (last.rep.count > TextCap /\ last.op = "find_elements_by_text")
                => last.rep.count > Len(last.rep.items)
          /\ FaultedInDescription => last.rep.count > Len(last.rep.items)
    /\ last.op = "get_form_elements" => last.rep.count = Len(last.rep.items)

\* C24 (amended): the list has at most 20 / 10 entries and count is at least
\* its length.  In find_elements_by_text count is the number of all matches,
\* and it is larger than the length of the list exactly when there are more
\* than 10 matches or one of the first 10 faulted while it was described.  In
\* get_clickable_elements an element that faults is neither listed nor
\* counted: count is larger than the length of the list exactly when more
\* than 20 unique clickables were collected.  In get_form_elements count is
\* the length of the list.
C24_Count ==
    /\ last.op = "find_elements_by_text" =>
          /\ Len(last.rep.items) <= TextCap
          /\ last.rep.count >= Len(last.rep.items)
          /\ last.out # "Error searching for text" =>
                /\ last.rep.count = Cardinality(TextMatches)
                /\ (last.rep.count > Len(last.rep.items)) =
                      (last.rep.count > TextCap \/ FaultedInDescription)
    /\ last.op = "get_clickable_elements" =>
          /\ Len(last.rep.items) <= ClickableCap
          /\ last.rep.count >= Len(last.rep.items)
          /\ (last.rep.count > Len(last.rep.items)) = (last.rep.count > ClickableCap)
          /\ last.rep.count <= Cardinality(Described \ {last.stale})
    /\ last.op = "get_form_elements" => last.rep.count = Len(last.rep.items)

\* get_clickable_elements came upon a stale clickable and still listed as
\* many elements as it counted.
C24_Witness ==
    /\ last.op = "get_clickable_elements"
    /\ FaultedInDescription
    /\ last.rep.count = 1
    /\ Len(last.rep.items) = 1

\* C25: a switch_tab call that raises the out-of-range IndexError was given
\* an index outside [0, tab_count) and changes nothing: the focus, the tab
\* list, the session and the page of every tab are after the call what they
\* were before it.
C25_OutOfRange ==
    /\ []((last.op = "switch_tab" /\ last.out = "IndexError") =>
            /\ last.raised
            /\ last.idx \notin 0 .. (Len(last.hs) - 1)
            /\ active = last.was
            /\ handles = last.hs)
    /\ [][(last' # last /\ last'.op = "switch_tab" /\ last'.out = "IndexError") =>
            UNCHANGED <<session, handles, active, page>>]_vars

\* switch_tab(2) failed with two tabs open and the focus on the first.
C25_Witness ==
    /\ last.op = "switch_tab"
    /\ last.out = "IndexError"
    /\ last.idx = 2
    /\ Len(handles) = 2
    /\ active = handles[1]
    /\ page[handles[2]].url # Blank

\* C26: an open_new_tab call whose window.open went through adds exactly one
\* tab, at the end of the tab list, and leaves the focus on it; the pages of
\* the tabs that were open before are what they were; the new tab shows the
\* url when one was given and loaded, and the blank page when none was given;
\* a switch_tab(tab_count - 1) that follows and succeeds leaves the focus on
\* that same tab.  A call whose window.open failed changes nothing.
C26_OpenNewTab ==
    /\ []((last.op = "open_new_tab" /\ last.did = "window.open") =>
            /\ Len(handles) = Len(last.hs) + 1
            /\ SubSeq(handles, 1, Len(last.hs)) = last.hs
            /\ active = handles[Len(handles)]
            /\ active \notin Range(last.hs)
            /\ last.tab = active
            /\ last.url = "" => (~last.raised /\ page[active] = BlankPage)
            /\ (last.url # "" /\ ~last.raised) => page[active].url = last.url
            /\ ~OutOfRange(handles, Len(handles) - 1)
            /\ HandleAt(handles, Len(handles) - 1) = active)
    /\ [][/\ (last' # last /\ last'.op = "open_new_tab") =>
                /\ \A t \in Range(handles) : page'[t] = page[t]
                /\ last'.did # "window.open" =>
                      (last'.raised /\ UNCHANGED <<session, handles, active, page>>)
          /\ (last.op = "open_new_tab" /\ last.did = "window.open"
              /\ last'.op = "switch_tab" /\ last'.idx = Len(handles) - 1) =>
                /\ last'.fault = "none" => ~last'.raised
                /\ active' = last.tab]_vars

\* A third tab was opened on a url from the first of two tabs, which shows a
\* loaded page.
C26_Witness ==
    /\ last.op = "open_new_tab"
    /\ ~last.raised
    /\ last.url = "http://portal"
    /\ Len(handles) = 3
    /\ last.was = handles[1]
    /\ page[handles[1]].el = "ready"
    /\ page[handles[2]].url = Blank
    /\ page[active].url = "http://portal"

====
